---- MODULE Spec2Model ----
(***************************************************************************)
(* debcrafter core: specification schema, loader, include resolver,        *)
(* instantiator, configuration accessor, service specialization            *)
(* (src/src/lib.rs) and the debconf template emitter                       *)
(* (src/src/bin/generator/templates.rs).                                   *)
(*                                                                         *)
(* Option<T> is modelled as a sequence of length at most one:              *)
(* None == <<>>, Some(x) == <<x>>.  A HashMap that the code iterates is a  *)
(* record [entries |-> function, iter |-> sequence of its keys]: `iter` is *)
(* the iteration order of that map instance, which std's RandomState       *)
(* leaves unspecified, so the loader picks it nondeterministically.        *)
(* Strings are TLA+ strings, concatenated with \o.  Package names in the   *)
(* model contain no '.', so Path::set_extension appends the extension.     *)
(***************************************************************************)
EXTENDS Integers, Sequences, FiniteSets, TLC

None == <<>>
Some(x) == <<x>>

\* ---------------------------------------------------------------- bounds
\* Largest number of configuration entries a root spec declares.
MaxConfigs == 2
\* Largest index of a sink operation that the sink may fail.
MaxFaultAt == 6

\* ------------------------------------------------------- on-disk documents
\* A document is the decoded key/value table of one spec file: a record
\* whose DOMAIN is the set of fields present in the file.

IterOrders(S) ==
    {p \in [1..Cardinality(S) -> S] : \A i, j \in 1..Cardinality(S) : p[i] = p[j] => i = j}

\* HashMap<K, V> built from the table m: every iteration order is possible.
HashMaps(m) == {[entries |-> m, iter |-> p] : p \in IterOrders(DOMAIN m)}

EmptyTable == <<>>

VarTypeTags == {"string", "uint", "bool", "bind_host", "bind_port", "path"}

\* enum VarType, #[serde(tag = "type")]: the set of decodings of a table.
VarType(raw) ==
    IF "type" \in DOMAIN raw /\ raw.type \in VarTypeTags
    THEN {[type |-> raw.type]}
    ELSE {}

\* struct InternalVar.
InternalVar(raw) ==
    IF {"summary", "priority"} \subseteq DOMAIN raw
    THEN {[ty |-> t,
           summary |-> raw.summary,
           long_doc |-> IF "long_doc" \in DOMAIN raw THEN Some(raw.long_doc) ELSE None,
           default |-> IF "default" \in DOMAIN raw THEN Some(raw.default) ELSE None,
           priority |-> raw.priority] : t \in VarType(raw)}
    ELSE {}

create_true == TRUE

\* struct ExternalVar.
ExternalVar(raw) ==
    [name |-> IF "name" \in DOMAIN raw THEN Some(raw.name) ELSE None,
     store |-> IF "store" \in DOMAIN raw THEN raw.store ELSE create_true]

\* struct HiddenVar with the flattened enum HiddenVarVal.
HiddenVar(raw) ==
    IF "constant" \in DOMAIN raw
    THEN {[ty |-> t, val |-> [kind |-> "Constant", value |-> raw.constant]] : t \in VarType(raw)}
    ELSE IF "script" \in DOMAIN raw
    THEN {[ty |-> t, val |-> [kind |-> "Script", value |-> raw.script]] : t \in VarType(raw)}
    ELSE {}

\* A table decoded value by value: decs[k] is the set of decodings of the
\* value under key k; the result is every table that picks one decoding per
\* key, and is empty when some value has no decoding.
DecodeTable(decs) ==
    {f \in [DOMAIN decs -> UNION {decs[k] : k \in DOMAIN decs}] :
        \A k \in DOMAIN decs : f[k] \in decs[k]}

Opt(raw, field, default) == IF field \in DOMAIN raw THEN raw[field] ELSE default

\* enum ConfType, #[serde(untagged)]: Static is tried first, then Dynamic.
ConfType(raw) ==
    IF "content" \in DOMAIN raw
    THEN {[kind |-> "Static", content |-> raw.content, internal |-> Opt(raw, "internal", FALSE)]}
    ELSE IF "format" \in DOMAIN raw /\ raw.format \in {"plain", "toml"}
    THEN {[kind |-> "Dynamic",
           format |-> raw.format,
           ivars |-> i, evars |-> e, hvars |-> h,
           cat_dir |-> IF "cat_dir" \in DOMAIN raw THEN Some(raw.cat_dir) ELSE None,
           cat_files |-> Opt(raw, "cat_files", {}),
           comment |-> IF "comment" \in DOMAIN raw THEN Some(raw.comment) ELSE None] :
              i \in UNION {HashMaps(m) : m \in DecodeTable([k \in DOMAIN Opt(raw, "ivars", EmptyTable) |-> InternalVar(raw.ivars[k])])},
              e \in HashMaps([p \in DOMAIN Opt(raw, "evars", EmptyTable) |->
                                [v \in DOMAIN raw.evars[p] |-> ExternalVar(raw.evars[p][v])]]),
              h \in UNION {HashMaps(m) : m \in DecodeTable([k \in DOMAIN Opt(raw, "hvars", EmptyTable) |-> HiddenVar(raw.hvars[k])])}}
    ELSE {}

\* struct Config.
Config(raw) ==
    {[public |-> Opt(raw, "public", FALSE), conf_type |-> t] : t \in ConfType(raw)}

\* The `config` field of a spec: the file declares a sequence of
\* <<entry-name, table>> pairs with distinct names, decoded into a HashMap.
RawOf(decl, k) == decl[CHOOSE i \in 1..Len(decl) : decl[i][1] = k][2]

ConfigMap(decl) ==
    UNION {HashMaps(m) :
             m \in DecodeTable([k \in {decl[i][1] : i \in 1..Len(decl)} |-> Config(RawOf(decl, k))])}

\* struct UserSpec.
UserSpec(raw) ==
    [name |-> IF "name" \in DOMAIN raw THEN Some(raw.name) ELSE None,
     group |-> Opt(raw, "group", FALSE),
     create |-> IF "create" \in DOMAIN raw THEN Some(raw.create) ELSE None]

\* struct ServicePackageSpec.
ServicePackageSpec(raw) ==
    IF {"bin_package", "binary", "user"} \subseteq DOMAIN raw
    THEN {[bin_package |-> raw.bin_package,
           binary |-> raw.binary,
           conf_param |-> IF "conf_param" \in DOMAIN raw THEN Some(raw.conf_param) ELSE None,
           conf_d |-> None,
           user |-> UserSpec(raw.user),
           config |-> c,
           after |-> None,
           extra_service_config |-> None,
           summary |-> IF "summary" \in DOMAIN raw THEN Some(raw.summary) ELSE None,
           long_doc |-> IF "long_doc" \in DOMAIN raw THEN Some(raw.long_doc) ELSE None] :
              c \in ConfigMap(Opt(raw, "config", <<>>))}
    ELSE {}

\* struct ConfExtPackageSpec.
ConfExtPackageSpec(raw) ==
    IF "extends" \in DOMAIN raw
    THEN {[extends |-> raw.extends,
           replaces |-> Opt(raw, "replaces", FALSE),
           summary |-> IF "summary" \in DOMAIN raw THEN Some(raw.summary) ELSE None,
           long_doc |-> IF "long_doc" \in DOMAIN raw THEN Some(raw.long_doc) ELSE None,
           config |-> c] : c \in ConfigMap(Opt(raw, "config", <<>>))}
    ELSE {}

\* enum PackageSpec, #[serde(untagged)]: Service is tried first, then ConfExt.
PackageSpec(raw) ==
    IF ServicePackageSpec(raw) # {}
    THEN {[shape |-> "Service", service |-> s] : s \in ServicePackageSpec(raw)}
    ELSE {[shape |-> "ConfExt", confext |-> c] : c \in ConfExtPackageSpec(raw)}

\* struct Package.
Package(raw) ==
    IF "name" \in DOMAIN raw
    THEN {[name |-> raw.name, variants |-> Opt(raw, "variants", {}), spec |-> s] :
             s \in PackageSpec(raw)}
    ELSE {}

\* ------------------------------------------------------------- universe
\* Raw configuration tables the root specs are built from.
StaticRaw == [content |-> "motd"]

EnabledRaw == [type |-> "bool", summary |-> "Enable feature", default |-> "true", priority |-> "medium"]

PortRaw ==
    [type |-> "bind_port", summary |-> "Listen port", default |-> "8080",
     long_doc |-> "Port to bind", priority |-> "low"]

DebugRaw == [type |-> "bool", summary |-> "Debug", long_doc |-> "Verbose logging", priority |-> "low"]

\* One internal variable, two external variables of one package.
FeatureRaw ==
    [format |-> "plain",
     ivars |-> ("enabled" :> EnabledRaw),
     evars |-> ("shared" :> (("rpcuser" :> EmptyTable) @@ ("rpcpass" :> [store |-> FALSE])))]

\* Two internal variables, another variable of the same package, a hidden one.
NetworkRaw ==
    [format |-> "toml", public |-> TRUE,
     ivars |-> (("port" :> PortRaw) @@ ("debug" :> DebugRaw)),
     evars |-> ("shared" :> ("rpcport" :> [name |-> "port"])),
     hvars |-> ("secret" :> [type |-> "string", script |-> "pwgen"])]

\* A dynamic entry without internal variables: external variables of two
\* packages and a hidden one.
TokenRaw ==
    [format |-> "plain",
     evars |-> (("shared" :> ("rpcuser" :> [name |-> "user"])) @@ ("base" :> ("datadir" :> EmptyTable))),
     hvars |-> ("token" :> [type |-> "string", constant |-> "x"])]

RawConfigs == {StaticRaw, FeatureRaw, NetworkRaw, TokenRaw}

EntryNames == <<"main.conf", "extra.conf", "local.conf", "site.conf">>

\* Declared `config` sections: up to MaxConfigs entries.  Entry names are
\* opaque labels, so the n entries of a file are named EntryNames[1..n] in
\* document order; the table of each entry is arbitrary.
Declarations ==
    UNION {{[i \in 1..n |-> <<EntryNames[i], c[i]>>] : c \in [1..n -> RawConfigs]} :
              n \in 0..MaxConfigs}

RawUsers == {EmptyTable, [group |-> TRUE], [name |-> "websvc"], [name |-> "websvc", group |-> TRUE]}

VariantSets == {{}, {"fast", "slow"}}

WithVariants(doc, vs) == IF vs = {} THEN doc ELSE doc @@ ("variants" :> vs)

ServiceDocs ==
    {WithVariants([name |-> "web", bin_package |-> "web-bin", binary |-> "/usr/bin/web",
                   user |-> u, config |-> d], vs) :
        u \in RawUsers, d \in Declarations, vs \in VariantSets}

ConfExtDocs ==
    {WithVariants([name |-> "web", extends |-> e, config |-> d], vs) :
        e \in {"shared", "base"}, d \in Declarations, vs \in VariantSets}

RootDocs == ServiceDocs \cup ConfExtDocs

RootPath == "web.sps"

\* Files of the include directories.  An include has cross-references of
\* its own: shared needs a variable of deep, base extends deep.
SharedDoc ==
    [name |-> "shared", bin_package |-> "shared-bin", binary |-> "/usr/bin/shared",
     user |-> [group |-> TRUE],
     config |-> <<<<"shared.conf", [format |-> "plain", evars |-> ("deep" :> ("datadir" :> EmptyTable))]>>>>]

BaseDoc == [name |-> "base", extends |-> "deep"]

DeepDoc ==
    [name |-> "deep", bin_package |-> "deep-bin", binary |-> "/usr/bin/deep", user |-> EmptyTable]

FullDir == ("shared.sps" :> SharedDoc) @@ ("base.sps" :> BaseDoc) @@ ("deep.sps" :> DeepDoc)

\* The same directory without base.sps.
PartialDir == ("shared.sps" :> SharedDoc) @@ ("deep.sps" :> DeepDoc)

Dirs == {FullDir, PartialDir}

VariantArgs == {None, Some("fast"), Some("gpu")}

IoErrors == {"BrokenPipe", "StorageFull"}

\* ------------------------------------------------------------ src/lib.rs
\* load_file: the set of values the call may return; empty when it panics
\* (file unreadable, or content that matches no shape).
load_file(fs, file) ==
    IF file \notin DOMAIN fs THEN {} ELSE Package(fs[file])

\* Package::load.
load(fs, file) == load_file(fs, file)

\* load_include: dir.join(name) with the extension set to "sps".
load_include(dir, name) == load(dir, name \o ".sps")

\* impl PackageConfig for ServicePackageSpec.
config_ServicePackageSpec(self) == self.config

\* config() that knows only the Service arm.
config_PackageSpec_ServiceOnly(self) ==
    IF self.shape = "Service" THEN self.service.config
    ELSE [entries |-> EmptyTable, iter |-> <<>>]

\* impl PackageConfig for PackageSpec.
config_PackageSpec(self) ==
    IF self.shape = "Service" THEN self.service.config ELSE self.confext.config

\* impl PackageConfig for Package.
config_Package(self) == config_PackageSpec(self.spec)

\* config() that hides the entries once a variant is selected.
config_PackageInstance_VariantScoped(self) ==
    IF self.variant # None THEN [entries |-> EmptyTable, iter |-> <<>>]
    ELSE config_PackageSpec(self.spec)

\* impl PackageConfig for PackageInstance.
config_PackageInstance(self) == config_PackageSpec(self.spec)

\* impl PackageConfig for ServiceInstance.
config_ServiceInstance(self) == config_ServicePackageSpec(self.spec)

\* `if let ConfType::Dynamic { .. } = &conf.conf_type`.
IsDynamic(conf) == conf.conf_type.kind = "Dynamic"

\* The package names the two loops of load_includes visit, in visiting order.
RECURSIVE EvarRefs(_, _)
EvarRefs(cfg, i) ==
    IF i > Len(cfg.iter) THEN <<>>
    ELSE LET conf == cfg.entries[cfg.iter[i]]
         IN  (IF IsDynamic(conf) THEN conf.conf_type.evars.iter ELSE <<>>) \o EvarRefs(cfg, i + 1)

\* load_includes without its second block.
ExtendsRefsNone(spec) == <<>>

\* `if let PackageSpec::ConfExt(confext) = &self.spec`: the extends target.
ExtendsRefs(spec) == IF spec.shape = "ConfExt" THEN <<spec.confext.extends>> ELSE <<>>

\* insert in place of or_insert_with: the closure runs for every reference.
IsVacantAlways(result, key) == TRUE

\* Entry::Vacant: or_insert_with runs its closure only for an absent key.
IsVacant(result, key) == key \notin DOMAIN result

\* result.entry(name).or_insert_with(|| load_include(dir, name)) applied to
\* one state of the call; `loads` is the trace of Loader invocations.
OrInsertWith(st, dir, name) ==
    IF st.panicked \/ ~IsVacant(st.result, name) THEN {st}
    ELSE IF load_include(dir, name) = {}
    THEN {[st EXCEPT !.panicked = TRUE, !.loads = Append(@, name)]}
    ELSE {[st EXCEPT !.result = (name :> p) @@ @, !.loads = Append(@, name)] :
             p \in load_include(dir, name)}

RECURSIVE VisitRefs(_, _, _, _)
VisitRefs(sts, dir, refs, i) ==
    IF i > Len(refs) THEN sts
    ELSE VisitRefs(UNION {OrInsertWith(st, dir, refs[i]) : st \in sts}, dir, refs, i + 1)

\* Package::load_includes: the set of outcomes of one call.
load_includes(self, dir) ==
    VisitRefs({[result |-> EmptyTable, loads |-> <<>>, panicked |-> FALSE]}, dir,
              EvarRefs(config_Package(self), 1) \o ExtendsRefs(self.spec), 1)

\* Join that leaves the separator out.
RECURSIVE JoinNoSeparator(_, _)
JoinNoSeparator(parts, sep) ==
    IF Len(parts) = 0 THEN ""
    ELSE parts[1] \o JoinNoSeparator(Tail(parts), sep)

\* [..].join(sep)
RECURSIVE Join(_, _)
Join(parts, sep) ==
    IF Len(parts) = 0 THEN ""
    ELSE IF Len(parts) = 1 THEN parts[1]
    ELSE parts[1] \o sep \o Join(Tail(parts), sep)

\* The membership test skipped for a package without variants.
HasVariantOrNone(self, v) == self.variants = {} \/ v \in self.variants

\* `self.variants.contains(variant)`.
HasVariant(self, v) == v \in self.variants

\* Package::instantiate.
instantiate(self, variant, includes) ==
    IF variant # None
    THEN IF ~HasVariant(self, variant[1]) THEN None
         ELSE Some([name |-> Join(<<self.name, variant[1]>>, "-"), variant |-> variant,
                    spec |-> self.spec, includes |-> includes])
    ELSE IF Cardinality(self.variants) > 0 THEN None
         ELSE Some([name |-> self.name, variant |-> variant,
                    spec |-> self.spec, includes |-> includes])

\* as_service that does not hand the includes on.
as_service_NoIncludes(self) ==
    IF self.spec.shape = "Service"
    THEN Some([name |-> self.name, variant |-> self.variant,
               spec |-> self.spec.service, includes |-> None])
    ELSE None

\* PackageInstance::as_service.
as_service(self) ==
    IF self.spec.shape = "Service"
    THEN Some([name |-> self.name, variant |-> self.variant,
               spec |-> self.spec.service, includes |-> self.includes])
    ELSE None

\* Option::unwrap_or.
UnwrapOr(opt, default) == IF opt # None THEN opt[1] ELSE default

\* ServiceInstance::user_name.
user_name(self) == UnwrapOr(self.spec.user.name, self.name)

\* ServiceInstance::service_name.
service_name(self) == self.name

\* service_group that ignores the explicit user name.
service_group_OwnName(self) ==
    IF self.spec.user.group THEN Some(self.name) ELSE None

\* ServiceInstance::service_group.
service_group(self) ==
    IF self.spec.user.group THEN Some(UnwrapOr(self.spec.user.name, self.name)) ELSE None

\* ------------------------------------------------- deferred output sink
\* io::Result<()>.
Ok == [ok |-> TRUE]
Err(e) == [ok |-> FALSE, err |-> e]

\* A not-yet-finalized builder whose sink fails its operation number
\* fault.at with fault.err (fault.at = 0: the sink never fails).
Builder(fault) == [fault |-> fault]

\* LazyCreateBuilder::finalize: the sink, with nothing written yet.
Finalize(builder) == [fault |-> builder.fault, log |-> <<>>]

\* One operation on the sink: it is recorded together with its outcome.
SinkOp(out, op, text) ==
    LET res == IF Len(out.log) + 1 = out.fault.at THEN Err(out.fault.err) ELSE Ok
    IN  [out |-> [out EXCEPT !.log = Append(@, [op |-> op, text |-> text, res |-> res])],
         res |-> res]

\* LazyCreate::separator.
Separator(out, sep) == SinkOp(out, "separator", sep)

\* writeln!(out, ..): the formatted line and a line feed.
Writeln(out, line) == SinkOp(out, "write", line \o "\n")

\* codegen::paragraph.
Paragraph(out, text) == SinkOp(out, "paragraph", text)

\* --------------------------------------------- bin/generator/templates.rs
\* Results dropped instead of propagated with `?`.
FailedNever(r) == FALSE

\* The `?` operator: an Err leaves the function at once.
Failed(r) == ~r.res.ok

\* Every variable typed as a string.
template_type_String(ty) == "string"

\* `if let VarType::Bool = var_spec.ty { "bool" } else { "string" }`.
template_type(ty) == IF ty.type = "bool" THEN "bool" ELSE "string"

\* `if let ConfType::Dynamic { ivars, .. } = &config.conf_type`.
HasIvars(config) == config.conf_type.kind = "Dynamic"

\* The body of the inner loop: one stanza.
Stanza(out, instance, var, var_spec) ==
    LET r1 == Separator(out, "\n") IN
    IF Failed(r1) THEN r1 ELSE
    LET r2 == Writeln(r1.out, "Template: " \o instance.name \o "/" \o var) IN
    IF Failed(r2) THEN r2 ELSE
    LET r3 == Writeln(r2.out, "Type: " \o template_type(var_spec.ty)) IN
    IF Failed(r3) THEN r3 ELSE
    LET r4 == IF var_spec.default # None
              THEN Writeln(r3.out, "Default: " \o var_spec.default[1])
              ELSE [out |-> r3.out, res |-> Ok] IN
    IF Failed(r4) THEN r4 ELSE
    LET r5 == Writeln(r4.out, "Description: " \o var_spec.summary) IN
    IF Failed(r5) THEN r5 ELSE
    IF var_spec.long_doc # None
    THEN Paragraph(r5.out, var_spec.long_doc[1])
    ELSE [out |-> r5.out, res |-> Ok]

\* `for (var, var_spec) in ivars`.
RECURSIVE IvarLoop(_, _, _, _)
IvarLoop(out, instance, ivars, j) ==
    IF j > Len(ivars.iter) THEN [out |-> out, res |-> Ok]
    ELSE LET r == Stanza(out, instance, ivars.iter[j], ivars.entries[ivars.iter[j]])
         IN  IF Failed(r) THEN r ELSE IvarLoop(r.out, instance, ivars, j + 1)

\* `for (_, config) in instance.config()`.
RECURSIVE ConfigLoop(_, _, _, _)
ConfigLoop(out, instance, cfg, i) ==
    IF i > Len(cfg.iter) THEN [out |-> out, res |-> Ok]
    ELSE LET config == cfg.entries[cfg.iter[i]]
             r == IF HasIvars(config)
                  THEN IvarLoop(out, instance, config.conf_type.ivars, 1)
                  ELSE [out |-> out, res |-> Ok]
         IN  IF Failed(r) THEN r ELSE ConfigLoop(r.out, instance, cfg, i + 1)

\* generate: the sink after the call and the returned io::Result<()>.
generate(instance, builder) ==
    LET r == ConfigLoop(Finalize(builder), instance, config_PackageInstance(instance), 1)
    IN  IF Failed(r) THEN r ELSE [out |-> r.out, res |-> Ok]

\* Iterating a HashMap: its (key, value) pairs in iteration order.
Iterate(map) == [i \in 1..Len(map.iter) |-> <<map.iter[i], map.entries[map.iter[i]]>>]

\* ----------------------------------------------------------- the pipeline
\* One build of one root spec: Loader, Include Resolver, Instantiator,
\* Service Specialization, Capability Interface, template emitter.
VARIABLES
    root,      \* the file system holding the root spec file
    pkg,       \* Option<Package>: the loaded root package
    incl,      \* Option<HashMap<String, Package>>: what load_includes returned
    loads,     \* Loader invocations made by load_includes, in order
    req,       \* Option<arguments of the instantiate call>
    inst,      \* Option<PackageInstance>: what instantiate returned
    svc,       \* Option<ServiceInstance>: what as_service returned
    ident,     \* Option<user_name, service_name, service_group>
    views,     \* Option<what config() returned on every wrapper>
    out,       \* the operations the sink received from generate
    result,    \* Option<io::Result<()>>: what generate returned
    pc

vars == <<root, pkg, incl, loads, req, inst, svc, ident, views, out, result, pc>>

Init ==
    /\ root \in {EmptyTable} \cup {RootPath :> d : d \in RootDocs}
    /\ pkg = None
    /\ incl = None
    /\ loads = <<>>
    /\ req = None
    /\ inst = None
    /\ svc = None
    /\ ident = None
    /\ views = None
    /\ out = <<>>
    /\ result = None
    /\ pc = "start"

\* Package::load(file) on the root spec file.
Load ==
    /\ pc = "start"
    /\ IF load(root, RootPath) = {}
       THEN pkg' = None /\ pc' = "aborted"
       ELSE \E p \in load(root, RootPath) : pkg' = Some(p) /\ pc' = "loaded"
    /\ UNCHANGED <<root, incl, loads, req, inst, svc, ident, views, out, result>>

\* package.load_includes(dir).
LoadIncludes ==
    /\ pc = "loaded"
    /\ \E dir \in Dirs : \E st \in load_includes(pkg[1], dir) :
          /\ loads' = st.loads
          /\ IF st.panicked
             THEN incl' = None /\ pc' = "aborted"
             ELSE incl' = Some(st.result) /\ pc' = "resolved"
    /\ UNCHANGED <<root, pkg, req, inst, svc, ident, views, out, result>>

\* package.instantiate(variant, includes).
Instantiate ==
    /\ pc = "resolved"
    /\ \E variant \in VariantArgs, includes \in {None, incl} :
          /\ req' = Some([variant |-> variant, includes |-> includes])
          /\ inst' = instantiate(pkg[1], variant, includes)
          /\ pc' = IF instantiate(pkg[1], variant, includes) = None
                   THEN "rejected" ELSE "instantiated"
    /\ UNCHANGED <<root, pkg, incl, loads, svc, ident, views, out, result>>

\* instance.as_service().
AsService ==
    /\ pc = "instantiated"
    /\ svc' = as_service(inst[1])
    /\ pc' = "narrowed"
    /\ UNCHANGED <<root, pkg, incl, loads, req, inst, ident, views, out, result>>

\* service.user_name(), service.service_name(), service.service_group().
Identify ==
    /\ pc = "narrowed"
    /\ svc # None
    /\ ident' = Some([user_name |-> user_name(svc[1]),
                      service_name |-> service_name(svc[1]),
                      service_group |-> service_group(svc[1])])
    /\ pc' = "identified"
    /\ UNCHANGED <<root, pkg, incl, loads, req, inst, svc, views, out, result>>

\* config() on the package, its spec, the instance and, for a service, the
\* service instance and the service spec; `listing` iterates the instance's.
ReadConfig ==
    /\ pc = "identified" \/ (pc = "narrowed" /\ svc = None)
    /\ views' = Some([package |-> config_Package(pkg[1]),
                      spec |-> config_PackageSpec(pkg[1].spec),
                      instance |-> config_PackageInstance(inst[1]),
                      service |-> IF svc # None
                                  THEN Some(config_ServiceInstance(svc[1])) ELSE None,
                      service_spec |-> IF pkg[1].spec.shape = "Service"
                                       THEN Some(config_ServicePackageSpec(pkg[1].spec.service))
                                       ELSE None,
                      listing |-> Iterate(config_PackageInstance(inst[1]))])
    /\ pc' = "read"
    /\ UNCHANGED <<root, pkg, incl, loads, req, inst, svc, ident, out, result>>

\* generate(&instance, out) with a sink that may fail one of its operations.
Generate ==
    /\ pc = "read"
    /\ \E at \in 0..MaxFaultAt, err \in IoErrors :
          LET r == generate(inst[1], Builder([at |-> at, err |-> err]))
          IN  /\ out' = r.out.log
              /\ result' = Some(r.res)
    /\ pc' = "done"
    /\ UNCHANGED <<root, pkg, incl, loads, req, inst, svc, ident, views>>

Next ==
    \/ Load
    \/ LoadIncludes
    \/ Instantiate
    \/ AsService
    \/ Identify
    \/ ReadConfig
    \/ Generate

Spec == Init /\ [][Next]_vars

\* ------------------------------------------------------------ properties
\* The configuration-entry mapping a package's spec owns, read off the field.
OwnConfig(p) ==
    IF p.spec.shape = "Service" THEN p.spec.service.config ELSE p.spec.confext.config

\* The package names a package refers to: the outer keys of the evars of its
\* Dynamic entries and, for an extension, the package it extends.
ReferencedNames(p) ==
    UNION {DOMAIN OwnConfig(p).entries[k].conf_type.evars.entries :
              k \in {e \in DOMAIN OwnConfig(p).entries :
                        OwnConfig(p).entries[e].conf_type.kind = "Dynamic"}}
    \cup (IF p.spec.shape = "ConfExt" THEN {p.spec.confext.extends} ELSE {})

Count(x, seq) == Cardinality({i \in 1..Len(seq) : seq[i] = x})

\* The entries of a package that are Dynamic and refer to package n.
EntriesReferring(p, n) ==
    {k \in DOMAIN OwnConfig(p).entries :
        /\ OwnConfig(p).entries[k].conf_type.kind = "Dynamic"
        /\ n \in DOMAIN OwnConfig(p).entries[k].conf_type.evars.entries}

\* C1: for a package with a non-empty variants set, instantiate without a
\* variant yields nothing, with a member variant vi it succeeds with the name
\* <package name>-<vi>, and with a non-member it yields nothing, whatever the
\* includes argument is.
C1_VariantsNonEmpty ==
    (req # None /\ pkg[1].variants # {}) =>
        LET v == req[1].variant
        IN  /\ (v = None) => inst = None
            /\ (v # None /\ v[1] \in pkg[1].variants) =>
                  (inst # None /\ inst[1].name = pkg[1].name \o "-" \o v[1])
            /\ (v # None /\ v[1] \notin pkg[1].variants) => inst = None

C1_Witness ==
    /\ req # None
    /\ pkg[1].variants = {"fast", "slow"}
    /\ req[1].variant = Some("fast")
    /\ req[1].includes # None
    /\ inst # None
    /\ inst[1].name = "web-fast"

\* C2: for a package with an empty variants set, instantiate without a
\* variant succeeds with the package's own name and no recorded variant, and
\* with any variant it yields nothing; so an instance exists only if a
\* variant was selected exactly when the variants set is non-empty.
C2_VariantsEmpty ==
    /\ (req # None /\ pkg[1].variants = {}) =>
          /\ (req[1].variant = None) =>
                (inst # None /\ inst[1].name = pkg[1].name /\ inst[1].variant = None)
          /\ (req[1].variant # None) => inst = None
    /\ (req # None /\ inst # None) => ((req[1].variant # None) <=> (pkg[1].variants # {}))

C2_Witness ==
    /\ req # None
    /\ pkg[1].variants = {}
    /\ req[1].variant = None
    /\ inst # None
    /\ inst[1].name = "web"
    /\ inst[1].variant = None

\* C3: a load_includes call that returns has invoked the Loader exactly once
\* for every distinct package name the package refers to, and for no other.
C3_LoadedOncePerName ==
    incl # None =>
        /\ \A n \in ReferencedNames(pkg[1]) : Count(n, loads) = 1
        /\ \A i \in 1..Len(loads) : loads[i] \in ReferencedNames(pkg[1])

C3_Witness ==
    /\ incl # None
    /\ pkg[1].spec.shape = "ConfExt"
    /\ pkg[1].spec.confext.extends = "shared"
    /\ Cardinality(EntriesReferring(pkg[1], "shared")) = 2
    /\ Count("shared", loads) = 1

\* C4: the map load_includes returns has as its keys exactly the names the
\* package itself refers to; the references of the loaded includes are not
\* followed.
C4_FlatIncludes ==
    incl # None => DOMAIN incl[1] = ReferencedNames(pkg[1])

C4_Witness ==
    /\ incl # None
    /\ "shared" \in DOMAIN incl[1]
    /\ "base" \in DOMAIN incl[1]
    /\ "deep" \in ReferencedNames(incl[1]["shared"])
    /\ "deep" \in ReferencedNames(incl[1]["base"])
    /\ "deep" \notin DOMAIN incl[1]
    /\ \E k \in DOMAIN OwnConfig(pkg[1]).entries :
          OwnConfig(pkg[1]).entries[k].conf_type.kind = "Static"

\* C5: as_service returns a ServiceInstance exactly for the instances whose
\* spec is the Service shape, and the ServiceInstance carries the name, the
\* variant and the includes of the instance.
C5_AsService ==
    pc \in {"narrowed", "identified", "read", "done"} =>
        /\ (svc # None) <=> (inst[1].spec.shape = "Service")
        /\ svc # None =>
              /\ svc[1].name = inst[1].name
              /\ svc[1].variant = inst[1].variant
              /\ svc[1].includes = inst[1].includes

C5_Witness ==
    /\ pc = "narrowed"
    /\ svc # None
    /\ svc[1].name = "web-fast"
    /\ svc[1].variant = Some("fast")
    /\ svc[1].includes # None

\* C6: user_name is the explicit user name if there is one and the instance
\* name otherwise, service_name is the instance name, and service_group is
\* present exactly when user.group is set and then equals user_name.
C6_ServiceIdentity ==
    ident # None =>
        LET u == pkg[1].spec.service.user
        IN  /\ ident[1].user_name = (IF u.name # None THEN u.name[1] ELSE inst[1].name)
            /\ ident[1].service_name = inst[1].name
            /\ (ident[1].service_group # None) <=> u.group
            /\ ident[1].service_group # None => ident[1].service_group[1] = ident[1].user_name

C6_Witness ==
    /\ ident # None
    /\ pkg[1].spec.service.user.name = Some("websvc")
    /\ pkg[1].spec.service.user.group
    /\ inst[1].name = "web-fast"
    /\ ident[1].user_name = "websvc"
    /\ ident[1].service_name = "web-fast"
    /\ ident[1].service_group = Some("websvc")

\* The `config` section the root spec file declares.
DeclaredConfig == Opt(root[RootPath], "config", <<>>)

\* C7 as stated: on a no-variant package instantiated without a variant,
\* iterating config() of the instance yields the declared entries in the
\* order of their declaration.
C7_DeclarationOrder ==
    (views # None /\ req[1].variant = None) =>
        /\ Len(views[1].listing) = Len(DeclaredConfig)
        /\ \A i \in 1..Len(DeclaredConfig) :
              /\ views[1].listing[i][1] = DeclaredConfig[i][1]
              /\ views[1].listing[i][2] \in Config(DeclaredConfig[i][2])

\* C7 (amended): on a no-variant package instantiated without a variant,
\* iterating config() of the instance yields every declared entry exactly
\* once, each with the Config decoded from its declaration, and no other
\* entry; the order is the hash map's.
C7_DeclaredEntries ==
    (views # None /\ req[1].variant = None) =>
        /\ Len(views[1].listing) = Len(DeclaredConfig)
        /\ \A i \in 1..Len(DeclaredConfig) :
              \E j \in 1..Len(views[1].listing) :
                 /\ views[1].listing[j][1] = DeclaredConfig[i][1]
                 /\ views[1].listing[j][2] \in Config(DeclaredConfig[i][2])
                 /\ \A k \in 1..Len(views[1].listing) :
                       views[1].listing[k][1] = DeclaredConfig[i][1] => k = j

C7_Witness ==
    /\ views # None
    /\ req[1].variant = None
    /\ pkg[1].variants = {}
    /\ Len(DeclaredConfig) = 2
    /\ views[1].listing[1][1] = DeclaredConfig[2][1]
    /\ views[1].listing[2][1] = DeclaredConfig[1][1]

\* The operations of one stanza, as the template format lays them out.
ExpectedStanza(name, var, vs) ==
    <<[op |-> "separator", text |-> "\n"],
      [op |-> "write", text |-> "Template: " \o name \o "/" \o var \o "\n"],
      [op |-> "write", text |-> IF vs.ty.type = "bool" THEN "Type: bool\n" ELSE "Type: string\n"]>>
    \o (IF vs.default = None THEN <<>>
        ELSE <<[op |-> "write", text |-> "Default: " \o vs.default[1] \o "\n"]>>)
    \o <<[op |-> "write", text |-> "Description: " \o vs.summary \o "\n"]>>
    \o (IF vs.long_doc = None THEN <<>>
        ELSE <<[op |-> "paragraph", text |-> vs.long_doc[1]]>>)

RECURSIVE ExpectedIvars(_, _, _)
ExpectedIvars(name, ivars, j) ==
    IF j > Len(ivars.iter) THEN <<>>
    ELSE ExpectedStanza(name, ivars.iter[j], ivars.entries[ivars.iter[j]])
         \o ExpectedIvars(name, ivars, j + 1)

RECURSIVE ExpectedEntries(_, _, _)
ExpectedEntries(name, cfg, i) ==
    IF i > Len(cfg.iter) THEN <<>>
    ELSE (IF cfg.entries[cfg.iter[i]].conf_type.kind = "Dynamic"
          THEN ExpectedIvars(name, cfg.entries[cfg.iter[i]].conf_type.ivars, 1)
          ELSE <<>>)
         \o ExpectedEntries(name, cfg, i + 1)

\* The number of internal variables of the Dynamic entries of a mapping.
RECURSIVE IvarCount(_, _)
IvarCount(cfg, i) ==
    IF i > Len(cfg.iter) THEN 0
    ELSE (IF cfg.entries[cfg.iter[i]].conf_type.kind = "Dynamic"
          THEN Cardinality(DOMAIN cfg.entries[cfg.iter[i]].conf_type.ivars.entries)
          ELSE 0)
         + IvarCount(cfg, i + 1)

\* What the sink was asked to do, without the outcomes.
Ops(log) == [i \in 1..Len(log) |-> [op |-> log[i].op, text |-> log[i].text]]

Separators(log) == {i \in 1..Len(log) : log[i].op = "separator"}

\* C8: a generate call that succeeds has written one stanza per internal
\* variable of each Dynamic entry and nothing else; a stanza is a separator,
\* the Template line, the Type line (bool for Bool, string otherwise), the
\* Default line iff a default is configured, the Description line and the
\* extended description iff long_doc is present; so there are as many
\* separators as stanzas.
C8_Stanzas ==
    (pc = "done" /\ result = Some(Ok)) =>
        /\ Ops(out) = ExpectedEntries(inst[1].name, OwnConfig(pkg[1]), 1)
        /\ Cardinality(Separators(out)) = IvarCount(OwnConfig(pkg[1]), 1)

C8_Witness ==
    /\ pc = "done"
    /\ result = Some(Ok)
    /\ inst[1].name = "web"
    /\ Cardinality(Separators(out)) = 3
    /\ \E k \in DOMAIN OwnConfig(pkg[1]).entries :
          /\ OwnConfig(pkg[1]).entries[k].conf_type.kind = "Dynamic"
          /\ DOMAIN OwnConfig(pkg[1]).entries[k].conf_type.hvars.entries # {}
          /\ DOMAIN OwnConfig(pkg[1]).entries[k].conf_type.evars.entries # {}
    /\ \E i \in 1..Len(out) - 4 :
          /\ out[i].op = "separator"
          /\ out[i + 1].text = "Template: web/enabled\n"
          /\ out[i + 2].text = "Type: bool\n"
          /\ out[i + 3].text = "Default: true\n"
          /\ out[i + 4].text = "Description: Enable feature\n"
          /\ (i + 4 < Len(out) => out[i + 5].op = "separator")

FailedOps(log) == {i \in 1..Len(log) : ~log[i].res.ok}

\* C9: when a sink operation fails, generate returns that operation's error
\* and the failed operation is the last one the sink receives; generate
\* returns Ok only if every operation it attempted succeeded.
C9_WriteFailure ==
    pc = "done" =>
        /\ FailedOps(out) # {} =>
              /\ FailedOps(out) = {Len(out)}
              /\ result = Some(out[Len(out)].res)
        /\ (result = Some(Ok)) <=> (FailedOps(out) = {})

C9_Witness ==
    /\ pc = "done"
    /\ Len(out) = 3
    /\ out[3].res = Err("StorageFull")
    /\ result = Some(Err("StorageFull"))
    /\ Len(ExpectedEntries(inst[1].name, OwnConfig(pkg[1]), 1)) > 3

\* C10: config() returns the mapping owned by the package's spec on the
\* package, on its spec, on every instance (whatever variant and includes it
\* was made with) and, for a service, on the service instance and on the
\* service spec; the reading changes neither the package nor the instances.
C10_UniformConfig ==
    [][(views = None /\ views' # None) =>
          /\ pkg' = pkg /\ inst' = inst /\ svc' = svc /\ incl' = incl
          /\ views'[1].package = OwnConfig(pkg[1])
          /\ views'[1].spec = OwnConfig(pkg[1])
          /\ views'[1].instance = OwnConfig(pkg[1])
          /\ (svc # None => views'[1].service = Some(OwnConfig(pkg[1])))
          /\ (pkg[1].spec.shape = "Service" =>
                 views'[1].service_spec = Some(OwnConfig(pkg[1])))]_vars

C10_Witness ==
    /\ views # None
    /\ svc # None
    /\ req[1].variant = Some("fast")
    /\ req[1].includes # None
    /\ Len(views[1].listing) = 2
    /\ views[1].service = Some(views[1].package)

====
